---------------------------- MODULE Spec2Model ----------------------------
(***************************************************************************)
(* The data aggregation, lookup and filtering core of the Iceberg          *)
(* compatibility matrix (src/data/load-data.ts, src/utils/filters.ts,      *)
(* src/utils/support.ts, src/utils/comparison.ts), and what App,           *)
(* ComparisonSummary and CompatibilityMatrix render from them.             *)
(*                                                                         *)
(* JavaScript strings on which the code computes (ids, versions, feature   *)
(* names, the search query, the composite support key) are sequences of   *)
(* one-character strings, so that concatenation, trimming, lower-casing   *)
(* and substring search are computed and not assumed.  Strings the code    *)
(* only compares or carries (categories, levels, notes) stay atomic.      *)
(***************************************************************************)
EXTENDS Naturals, Sequences, FiniteSets

\* ------------------------------------------------------------------ bounds

\* longest platform / feature id passed to supportKey and getSupportEntry
MaxIdLen == 3
\* longest selectedPlatforms list of a FilterState
MaxSelected == 2
\* longest searchQuery of a FilterState
MaxQueryLen == 2
\* most calls a caller that keeps its first result makes
MaxCalls == 3

\* ------------------------------------------------------------------- state

VARIABLES
    files,   \* the imported JSON modules: aws, nonAwsVendors, featuresJson
    data,    \* the snapshot built by mergeData at module initialisation
    call,    \* the latest call of an exported function: arguments and result
    memo,    \* the first applyFilters call of a caller that keeps its result;
             \* in a page session, the latest event and the FilterState before it
    ncalls   \* the number of calls made so far

vars == <<files, data, call, memo, ncalls>>

\* ----------------------------------------------------------------- strings

Range(s) == { s[i] : i \in DOMAIN s }

\* all sequences over alphabet of length lo..hi
SeqsOver(alphabet, lo, hi) == UNION { [1..n -> alphabet] : n \in lo..hi }

\* String.prototype.toLowerCase, per character
LowerChar(c) ==
    CASE c = "A" -> "a"
      [] c = "B" -> "b"
      [] OTHER   -> c

ToLowerCase(s) == [i \in DOMAIN s |-> LowerChar(s[i])]

\* the characters String.prototype.trim strips
WhiteSpace == {" ", "\t", "\n"}

RECURSIVE TrimStart(_)
TrimStart(s) ==
    IF s # <<>> /\ Head(s) \in WhiteSpace THEN TrimStart(Tail(s)) ELSE s

RECURSIVE TrimEnd(_)
TrimEnd(s) ==
    IF s # <<>> /\ s[Len(s)] \in WhiteSpace
    THEN TrimEnd(SubSeq(s, 1, Len(s) - 1))
    ELSE s

\* String.prototype.trim
Trim(s) == TrimEnd(TrimStart(s))

\* String.prototype.includes: the first position at which q starts, if any
RECURSIVE IncludesFrom(_, _, _)
IncludesFrom(s, q, pos) ==
    IF pos + Len(q) > Len(s) THEN FALSE
    ELSE IF SubSeq(s, pos + 1, pos + Len(q)) = q THEN TRUE
    ELSE IncludesFrom(s, q, pos + 1)

Includes(s, q) == IncludesFrom(s, q, 0)

\* ------------------------------------------------------------- data model

V2 == <<"v", "2">>
V3 == <<"v", "3">>
\* type Version
Version == {V2, V3}

\* type SupportLevel
SupportLevel == {"full", "partial", "none", "unknown"}

\* interface Platform
Platform(id, name, group) ==
    [id |-> id, name |-> name, vendor |-> group, category |-> "cloud",
     group |-> group, docUrl |-> "https://example.org"]

\* interface Feature
Feature(id, name, category, introducedIn, description) ==
    [id |-> id, name |-> name, category |-> category,
     introducedIn |-> introducedIn, description |-> description]

\* interface SupportEntry, without and with the optional links
Entry(level, notes) == [level |-> level, notes |-> notes, caveats |-> <<>>]

EntryWithLinks(level, notes, caveats) ==
    [level |-> level, notes |-> notes, caveats |-> caveats,
     links |-> << [label |-> "docs", url |-> "https://example.org"] >>]

\* the key under which the vendor JSON files store an entry
JsonKey(platformId, featureId, version) ==
    platformId \o <<":">> \o featureId \o <<":">> \o version

\* a JSON "support" object from (platform, feature, version, entry) rows
SupportObject(rows) ==
    [k \in { JsonKey(r[1], r[2], r[3]) : r \in rows } |->
        (CHOOSE r \in rows : JsonKey(r[1], r[2], r[3]) = k)[4]]

\* ------------------------------------------------- the loaded JSON modules

AWS == "AWS"
GCP == "GCP"
ThirdParty == "3rd Party"

IdAthena == <<"a">>
IdBigQuery == <<"a", "a">>
IdTables == <<"a", ":", "a">>
IdSpark == <<"a", "a", "a">>

PAthena == Platform(IdAthena, "Athena", AWS)
PBigQuery == Platform(IdBigQuery, "BigQuery", GCP)
PTables == Platform(IdTables, "S3 Tables", AWS)
PSpark == Platform(IdSpark, "Spark", ThirdParty)

IdRead == <<"a">>
IdVariant == <<"a", "a">>
IdBucket == <<"a", "a", "a">>
IdRowLineage == <<"a", ":", "a">>

FRead == Feature(IdRead, <<"a", "B">>, "read-write", V2, <<"B">>)
FVariant == Feature(IdVariant, <<"B", "a">>, "v3-data-types", V3, <<"a">>)
FBucket == Feature(IdBucket, <<"B">>, "partitioning", V2, <<"a", "B">>)
FRowLineage == Feature(IdRowLineage, <<"b", " ", "A">>, "partitioning", V3, <<>>)

\* features.json as shipped, and a catalog in which a feature id holds a ":"
FeaturesJson == [features |-> <<FRead, FVariant, FBucket>>, versions |-> <<V2, V3>>]
FeaturesJsonColon ==
    [features |-> <<FRowLineage, FBucket, FRead>>, versions |-> <<V2, V3>>]

FeaturesFiles == {FeaturesJson, FeaturesJsonColon}

\* platforms/aws.json
Aws ==
    [platforms |-> <<PAthena>>,
     support |-> SupportObject({
        <<IdAthena, IdRead, V2, EntryWithLinks("full", "engine v3", <<"no MoR">>)>>,
        <<IdAthena, IdRead, V3, Entry("none", "")>>,
        <<IdAthena, IdVariant, V2, Entry("partial", "preview")>>,
        <<IdAthena, IdVariant, V3, Entry("full", "")>>,
        <<IdAthena, IdBucket, V2, Entry("none", "")>>,
        <<IdAthena, IdBucket, V3, Entry("full", "")>>,
        <<IdAthena, IdRowLineage, V2, Entry("unknown", "")>> })]

\* platforms/aws-tables.json
AwsTables ==
    [platforms |-> <<PTables, PAthena>>,
     support |-> SupportObject({
        <<IdTables, IdRead, V2, Entry("partial", "managed")>>,
        <<IdTables, IdRead, V3, Entry("full", "")>>,
        <<IdTables, IdBucket, V3, Entry("none", "")>>,
        <<IdAthena, IdRead, V2, Entry("full", "")>> })]

AwsFiles == {Aws, AwsTables}

\* platforms/gcp.json
Gcp ==
    [platforms |-> <<PBigQuery>>,
     support |-> SupportObject({
        <<IdBigQuery, IdRead, V2, Entry("full", "")>>,
        <<IdBigQuery, IdRead, V3, Entry("partial", "")>>,
        <<IdBigQuery, IdVariant, V2, Entry("none", "")>>,
        <<IdBigQuery, IdVariant, V3, Entry("none", "")>>,
        <<IdBigQuery, IdBucket, V2, Entry("partial", "")>> })]

\* a vendor file that declares nothing
NoVendor == [platforms |-> <<>>, support |-> SupportObject({})]

\* platforms/oss.json
Oss ==
    [platforms |-> <<PSpark>>,
     support |-> SupportObject({
        <<IdSpark, IdRead, V2, Entry("full", "")>>,
        <<IdSpark, IdBucket, V3, Entry("partial", "hidden partitioning")>> })]

\* platforms/oss.json with entries for a platform an earlier file also covers
OssOverlap ==
    [platforms |-> <<>>,
     support |-> SupportObject({
        <<IdAthena, IdRead, V2, Entry("partial", "oss view")>>,
        <<IdBigQuery, IdBucket, V3, Entry("full", "")>> })]

\* const nonAwsVendors = [gcp, azure, databricks, snowflake, oss]
NonAwsVendorLists ==
    { <<Gcp, NoVendor, NoVendor, NoVendor, NoVendor>>,
      <<Gcp, NoVendor, NoVendor, NoVendor, OssOverlap>>,
      <<Gcp, NoVendor, NoVendor, NoVendor, Oss>> }

\* ------------------------------------------------------------ load-data.ts

\* Object.assign that replaces the target by the source
ObjectAssignReplace(target, source) == source

\* Object.assign that keeps the target's value of a key both have
ObjectAssignKeepExisting(target, source) ==
    [k \in DOMAIN target \cup DOMAIN source |->
        IF k \in DOMAIN target THEN target[k] ELSE source[k]]

\* Object.assign(target, source)
ObjectAssign(target, source) ==
    [k \in DOMAIN target \cup DOMAIN source |->
        IF k \in DOMAIN source THEN source[k] ELSE target[k]]

\* the loop over nonAwsVendors with unshift in the place of push
RECURSIVE MergeVendorsPrepend(_, _, _)
MergeVendorsPrepend(platforms, support, vendors) ==
    IF vendors = <<>> THEN [platforms |-> platforms, support |-> support]
    ELSE MergeVendorsPrepend(Head(vendors).platforms \o platforms,
                             ObjectAssign(support, Head(vendors).support),
                             Tail(vendors))

\* for (const vendor of nonAwsVendors) { ... }
RECURSIVE MergeVendors(_, _, _)
MergeVendors(platforms, support, vendors) ==
    IF vendors = <<>> THEN [platforms |-> platforms, support |-> support]
    ELSE MergeVendors(platforms \o Head(vendors).platforms,
                      ObjectAssign(support, Head(vendors).support),
                      Tail(vendors))

\* mergeData whose loop runs over the AWS file as well as nonAwsVendors
MergeDataAwsInLoop(awsSource, nonAwsVendors, featuresJson) ==
    LET merged == MergeVendors(awsSource.platforms,
                               ObjectAssign(SupportObject({}), awsSource.support),
                               <<awsSource>> \o nonAwsVendors)
    IN  [platforms |-> merged.platforms,
         features  |-> featuresJson.features,
         versions  |-> featuresJson.versions,
         support   |-> merged.support]

\* function mergeData(awsSource), with the modules it closes over
MergeData(awsSource, nonAwsVendors, featuresJson) ==
    LET merged == MergeVendors(awsSource.platforms,
                               ObjectAssign(SupportObject({}), awsSource.support),
                               nonAwsVendors)
    IN  [platforms |-> merged.platforms,
         features  |-> featuresJson.features,
         versions  |-> featuresJson.versions,
         support   |-> merged.support]

\* ------------------------------------- load-data.ts on files of any shape

\* The "as VendorFile" and "as Platform[]" casts are erased when the module
\* is compiled: mergeData runs on whatever the JSON files hold.  A JSON value
\* is modelled with its kind; a field a file does not have reads as undefined.
JsonUndefined == [kind |-> "undefined"]
JsonArray(items) == [kind |-> "array", items |-> items]
JsonObject(props) == [kind |-> "object", props |-> props]

\* a vendor file of the declared shape
Raw(file) ==
    [platforms |-> JsonArray(file.platforms), support |-> JsonObject(file.support)]

\* the file without its "platforms" field, without its "support" field, with
\* the platforms as an object keyed by id, with the support as a list
WithoutPlatforms(file) == [Raw(file) EXCEPT !.platforms = JsonUndefined]
WithoutSupport(file) == [Raw(file) EXCEPT !.support = JsonUndefined]
PlatformsById(file) ==
    [Raw(file) EXCEPT !.platforms =
        JsonObject([id \in Range([i \in DOMAIN file.platforms |-> file.platforms[i].id])
                      |-> CHOOSE q \in Range(file.platforms) : q.id = id])]
SupportAsList(file) ==
    [Raw(file) EXCEPT !.support = JsonArray(<<Entry("full", ""), Entry("none", "")>>)]

\* the spread in platforms.push(...x) iterates x, and throws a TypeError when
\* x is undefined or an object without an iterator
IsIterable(x) == x.kind = "array"

\* the property names of an array: "0", "1", ...
Digits == <<"0", "1", "2", "3", "4", "5", "6", "7", "8", "9">>

\* the own enumerable properties Object.assign(target, x) copies: none when x
\* is undefined, the indices when x is an array
OwnProperties(x) ==
    CASE x.kind = "object" -> x.props
      [] x.kind = "array" ->
            [k \in { <<Digits[i]>> : i \in DOMAIN x.items } |->
                x.items[CHOOSE i \in DOMAIN x.items : <<Digits[i]>> = k]]
      [] OTHER -> SupportObject({})

\* what is left of the module when mergeData throws
Thrown == [thrown |-> "TypeError"]

\* the push and the Object.assign of mergeData, source after source
RECURSIVE MergeRaw(_, _, _)
MergeRaw(platforms, support, sources) ==
    IF sources = <<>> THEN [platforms |-> platforms, support |-> support]
    ELSE IF ~IsIterable(Head(sources).platforms) THEN Thrown
    ELSE MergeRaw(platforms \o Head(sources).platforms.items,
                  ObjectAssign(support, OwnProperties(Head(sources).support)),
                  Tail(sources))

\* function mergeData(awsSource) on files of any shape
MergeDataRaw(awsSource, nonAwsVendors, featuresJson) ==
    LET merged == MergeRaw(<<>>, SupportObject({}), <<awsSource>> \o nonAwsVendors)
    IN  IF "thrown" \in DOMAIN merged THEN Thrown
        ELSE [platforms |-> merged.platforms,
              features  |-> featuresJson.features,
              versions  |-> featuresJson.versions,
              support   |-> merged.support]

\* --------------------------------------------------------------- support.ts

\* const DEFAULT_ENTRY
DEFAULT_ENTRY == [level |-> "unknown", notes |-> "", caveats |-> <<>>]

\* supportKey with the feature id first
supportKeyFeatureFirst(platformId, featureId, version) ==
    featureId \o <<":">> \o platformId \o <<":">> \o version

\* supportKey without the delimiter between the two ids
supportKeyNoDelimiter(platformId, featureId, version) ==
    platformId \o featureId \o <<":">> \o version

\* function supportKey
supportKey(platformId, featureId, version) ==
    platformId \o <<":">> \o featureId \o <<":">> \o version

\* getSupportEntry with "none" as the level of a missing entry
getSupportEntryDefaultNone(d, platformId, featureId, version) ==
    LET key == supportKey(platformId, featureId, version)
    IN  IF key \in DOMAIN d.support THEN d.support[key]
        ELSE [DEFAULT_ENTRY EXCEPT !.level = "none"]

\* function getSupportEntry
getSupportEntry(d, platformId, featureId, version) ==
    LET key == supportKey(platformId, featureId, version)
    IN  IF key \in DOMAIN d.support THEN d.support[key] ELSE DEFAULT_ENTRY

\* --------------------------------------------------------------- filters.ts

\* "Filter platforms by selected IDs", with the test negated
platformsNotSelected(platforms, filters) ==
    LET ids == Range(filters.selectedPlatforms)
        byId(p) == p.id \notin ids
    IN  IF Len(filters.selectedPlatforms) > 0
        THEN SelectSeq(platforms, byId)
        ELSE platforms

\* // Filter platforms by selected IDs
platformsBySelectedIds(platforms, filters) ==
    LET ids == Range(filters.selectedPlatforms)
        byId(p) == p.id \in ids
    IN  IF Len(filters.selectedPlatforms) > 0
        THEN SelectSeq(platforms, byId)
        ELSE platforms

\* the V3 gate left out
keepV3OnlyFeatures(features, filters) == features

\* the V3 gate applied whatever the selected versions are
dropV3OnlyFeatures(features, filters) ==
    LET notV3(f) == f.introducedIn # V3
    IN  SelectSeq(features, notV3)

\* a gate on every version: the features whose introducing version is not
\* among the selected versions are hidden
hideUnselectedVersions(features, filters) ==
    LET selected(f) == f.introducedIn \in Range(filters.selectedVersions)
    IN  SelectSeq(features, selected)

\* // Hide V3-only features when V3 is not among selected versions
hideV3OnlyFeatures(features, filters) ==
    LET hasV3 == \E i \in DOMAIN filters.selectedVersions :
                    filters.selectedVersions[i] = V3
        notV3(f) == f.introducedIn # V3
    IN  IF ~hasV3 THEN SelectSeq(features, notV3) ELSE features

\* "Filter features by selected categories", read as an exclusion list
featuresByExcludedCategories(features, filters) ==
    LET cats == Range(filters.selectedCategories)
        byCat(f) == f.category \notin cats
    IN  IF Len(filters.selectedCategories) > 0
        THEN SelectSeq(features, byCat)
        ELSE features

\* // Filter features by selected categories
featuresBySelectedCategories(features, filters) ==
    LET cats == Range(filters.selectedCategories)
        byCat(f) == f.category \in cats
    IN  IF Len(filters.selectedCategories) > 0
        THEN SelectSeq(features, byCat)
        ELSE features

\* the search step with find in place of filter: the first match only
featuresFirstMatch(features, filters) ==
    LET query == ToLowerCase(Trim(filters.searchQuery))
        byName(f) == Includes(ToLowerCase(f.name), query)
        matches == SelectSeq(features, byName)
    IN  IF Trim(filters.searchQuery) # <<>>
        THEN SubSeq(matches, 1, IF matches = <<>> THEN 0 ELSE 1)
        ELSE features

\* "Filter features by search query", matching the id as well as the name
featuresByNameOrId(features, filters) ==
    LET query == ToLowerCase(Trim(filters.searchQuery))
        byName(f) == \/ Includes(ToLowerCase(f.name), query)
                     \/ Includes(ToLowerCase(f.id), query)
    IN  IF Trim(filters.searchQuery) # <<>>
        THEN SelectSeq(features, byName)
        ELSE features

\* // Filter features by search query (case-insensitive name match)
featuresBySearchQuery(features, filters) ==
    LET query == ToLowerCase(Trim(filters.searchQuery))
        byName(f) == Includes(ToLowerCase(f.name), query)
    IN  IF Trim(filters.searchQuery) # <<>>
        THEN SelectSeq(features, byName)
        ELSE features

\* applyFilters that also drops the features for which no platform has an
\* entry of a selected support level
applyFiltersByLevel(d, filters) ==
    LET platforms == platformsBySelectedIds(d.platforms, filters)
        features ==
            featuresBySearchQuery(
                featuresBySelectedCategories(
                    hideV3OnlyFeatures(d.features, filters), filters), filters)
        levels == Range(filters.selectedSupportLevels)
        hasLevel(f) ==
            \E i \in DOMAIN platforms, v \in Version :
                getSupportEntry(d, platforms[i].id, f.id, v).level \in levels
    IN  [platforms |-> platforms,
         features  |-> IF Len(filters.selectedSupportLevels) > 0
                       THEN SelectSeq(features, hasLevel)
                       ELSE features]

\* function applyFilters
applyFilters(d, filters) ==
    LET platforms == platformsBySelectedIds(d.platforms, filters)
        features ==
            featuresBySearchQuery(
                featuresBySelectedCategories(
                    hideV3OnlyFeatures(d.features, filters), filters), filters)
    IN  [platforms |-> platforms, features |-> features]

\* ------------------------------------------------------------ comparison.ts

\* the loop of computeComparison with the second test not chained to the
\* first by "else": a gained feature is counted as changed as well
RECURSIVE CompareFromUnchained(_, _, _, _, _, _)
CompareFromUnchained(d, platformId, versionA, versionB, i, acc) ==
    IF i > Len(d.features) THEN acc
    ELSE
        LET a == getSupportEntry(d, platformId, d.features[i].id, versionA).level
            b == getSupportEntry(d, platformId, d.features[i].id, versionB).level
            first ==
                IF a # b /\ a = "none" /\ b # "none"
                THEN [acc EXCEPT !.gained = @ + 1]
                ELSE acc
            next ==
                IF a = b THEN acc
                ELSE IF a # "none" /\ b = "none"
                     THEN [first EXCEPT !.lost = @ + 1]
                ELSE [first EXCEPT !.changed = @ + 1]
        IN  CompareFromUnchained(d, platformId, versionA, versionB, i + 1, next)

\* the loop of computeComparison taking "unknown" at version A, and only
\* there, for "none"
RECURSIVE CompareFromUnknownAtA(_, _, _, _, _, _)
CompareFromUnknownAtA(d, platformId, versionA, versionB, i, acc) ==
    IF i > Len(d.features) THEN acc
    ELSE
        LET a == getSupportEntry(d, platformId, d.features[i].id, versionA).level
            b == getSupportEntry(d, platformId, d.features[i].id, versionB).level
            next ==
                IF a = b THEN acc
                ELSE IF a \in {"none", "unknown"} /\ b # "none"
                     THEN [acc EXCEPT !.gained = @ + 1]
                ELSE IF a # "none" /\ b = "none"
                     THEN [acc EXCEPT !.lost = @ + 1]
                ELSE [acc EXCEPT !.changed = @ + 1]
        IN  CompareFromUnknownAtA(d, platformId, versionA, versionB, i + 1, next)

\* the loop of computeComparison with break in place of continue: it stops
\* at the first feature whose levels are equal
RECURSIVE CompareFromBreaking(_, _, _, _, _, _)
CompareFromBreaking(d, platformId, versionA, versionB, i, acc) ==
    IF i > Len(d.features) THEN acc
    ELSE
        LET a == getSupportEntry(d, platformId, d.features[i].id, versionA).level
            b == getSupportEntry(d, platformId, d.features[i].id, versionB).level
            next ==
                IF a = "none" /\ b # "none"
                THEN [acc EXCEPT !.gained = @ + 1]
                ELSE IF a # "none" /\ b = "none"
                     THEN [acc EXCEPT !.lost = @ + 1]
                ELSE [acc EXCEPT !.changed = @ + 1]
        IN  IF a = b THEN acc
            ELSE CompareFromBreaking(d, platformId, versionA, versionB, i + 1, next)

\* the loop of computeComparison passing over a feature whose level is
\* unknown at either version
RECURSIVE CompareFromSkippingUnknown(_, _, _, _, _, _)
CompareFromSkippingUnknown(d, platformId, versionA, versionB, i, acc) ==
    IF i > Len(d.features) THEN acc
    ELSE
        LET a == getSupportEntry(d, platformId, d.features[i].id, versionA).level
            b == getSupportEntry(d, platformId, d.features[i].id, versionB).level
            next ==
                IF a = b \/ a = "unknown" \/ b = "unknown" THEN acc
                ELSE IF a = "none" /\ b # "none"
                     THEN [acc EXCEPT !.gained = @ + 1]
                ELSE IF a # "none" /\ b = "none"
                     THEN [acc EXCEPT !.lost = @ + 1]
                ELSE [acc EXCEPT !.changed = @ + 1]
        IN  CompareFromSkippingUnknown(d, platformId, versionA, versionB, i + 1, next)

\* for (const feature of data.features) { ... }
RECURSIVE CompareFrom(_, _, _, _, _, _)
CompareFrom(d, platformId, versionA, versionB, i, acc) ==
    IF i > Len(d.features) THEN acc
    ELSE
        LET a == getSupportEntry(d, platformId, d.features[i].id, versionA).level
            b == getSupportEntry(d, platformId, d.features[i].id, versionB).level
            next ==
                IF a = b THEN acc
                ELSE IF a = "none" /\ b # "none"
                     THEN [acc EXCEPT !.gained = @ + 1]
                ELSE IF a # "none" /\ b = "none"
                     THEN [acc EXCEPT !.lost = @ + 1]
                ELSE [acc EXCEPT !.changed = @ + 1]
        IN  CompareFrom(d, platformId, versionA, versionB, i + 1, next)

\* function computeComparison
computeComparison(d, platformId, versionA, versionB) ==
    CompareFrom(d, platformId, versionA, versionB, 1,
                [gained |-> 0, lost |-> 0, changed |-> 0])

\* ---------------------------------------------------------- the components

\* what a component that returns null, or is not mounted, puts on the page
NotRendered == [shown |-> FALSE]

\* function ComparisonSummary: one card per platform it is given
ComparisonSummary(d, platforms, versions) ==
    IF Len(versions) < 2 THEN NotRendered
    ELSE [shown |-> TRUE,
          vA |-> versions[1],
          vB |-> versions[2],
          cards |-> [i \in DOMAIN platforms |->
                        [key |-> platforms[i].id,
                         name |-> platforms[i].name,
                         counts |-> computeComparison(d, platforms[i].id,
                                                      versions[1], versions[2])]]]

\* const CATEGORY_ORDER
CATEGORY_ORDER ==
    <<"row-level-operations", "schema-management", "partitioning",
      "table-management", "read-write", "v3-data-types", "v3-advanced",
      "catalog-support">>

\* function FeatureRow: the feature's name and one cell per platform and version
FeatureRow(d, feature, platforms, versions) ==
    [name |-> feature.name,
     cells |-> [i \in DOMAIN platforms |->
                  [j \in DOMAIN versions |->
                      [key |-> platforms[i].id \o <<":">> \o versions[j],
                       entry |-> getSupportEntry(d, platforms[i].id,
                                                 feature.id, versions[j])]]]]

\* the page of CompatibilityMatrix when the filters leave something to show:
\* the platform header and the features by category (no category collapsed,
\* as on the first render)
MatrixGrid(d, platforms, features, versions) ==
    LET ofCategory(cat) ==
            LET inCat(f) == f.category = cat
            IN  SelectSeq(features, inCat)
        all == [k \in DOMAIN CATEGORY_ORDER |->
                  [category |-> CATEGORY_ORDER[k],
                   features |-> ofCategory(CATEGORY_ORDER[k])]]
        nonEmpty(g) == Len(g.features) > 0
        grouped == SelectSeq(all, nonEmpty)
    IN  [view |-> "grid",
         colCount |-> Len(platforms) * Len(versions),
         header |-> [i \in DOMAIN platforms |->
                       [j \in DOMAIN versions |->
                           [key |-> platforms[i].id \o <<":">> \o versions[j],
                            name |-> platforms[i].name]]],
         groups |-> [g \in DOMAIN grouped |->
                       [category |-> grouped[g].category,
                        count |-> Len(grouped[g].features),
                        rows |-> [r \in DOMAIN grouped[g].features |->
                                    FeatureRow(d, grouped[g].features[r],
                                               platforms, versions)]]]]

\* the paragraph CompatibilityMatrix returns instead of the table
EmptyState ==
    [view |-> "empty",
     text |-> "No compatibility data available for the current filters."]

\* CompatibilityMatrix with the empty state only when both lists are empty
CompatibilityMatrixBothEmpty(d, filters) ==
    LET r == applyFilters(d, filters)
    IN  IF Len(r.platforms) = 0 /\ Len(r.features) = 0
        THEN EmptyState
        ELSE MatrixGrid(d, r.platforms, r.features, filters.selectedVersions)

\* function CompatibilityMatrix
CompatibilityMatrix(d, filters) ==
    LET r == applyFilters(d, filters)
    IN  IF Len(r.platforms) = 0 \/ Len(r.features) = 0
        THEN EmptyState
        ELSE MatrixGrid(d, r.platforms, r.features, filters.selectedVersions)

\* App that hands ComparisonSummary the filtered features with the platforms
AppComparingFiltered(d, filters) ==
    LET r == applyFilters(d, filters)
        isCompareMode == Len(filters.selectedVersions) > 1
    IN  [summary |-> IF isCompareMode
                     THEN ComparisonSummary([d EXCEPT !.features = r.features],
                                            r.platforms, filters.selectedVersions)
                     ELSE NotRendered,
         matrix |-> CompatibilityMatrix(d, filters)]

\* function App: what it renders below the header for the filters it holds
App(d, filters) ==
    LET platforms == applyFilters(d, filters).platforms
        isCompareMode == Len(filters.selectedVersions) > 1
    IN  [summary |-> IF isCompareMode
                     THEN ComparisonSummary(d, platforms, filters.selectedVersions)
                     ELSE NotRendered,
         matrix |-> CompatibilityMatrix(d, filters)]

\* ---------------------------------------------- VersionTabs, FilterPanel

\* list.includes(x)
Has(list, x) == \E i \in DOMAIN list : list[i] = x

\* list.filter((s) => s !== x)
Without(list, x) ==
    LET other(s) == s # x
    IN  SelectSeq(list, other)

\* toggle without "if (selected.length <= 1) return"
toggleDeselectingLast(selected, v) ==
    IF Has(selected, v)
    THEN Without(selected, v)
    ELSE IF Len(selected) > 1 THEN selected \o <<v>> ELSE <<v>>

\* const toggle = (v) => ..., of VersionTabs: the selection it hands to
\* onChange, or the selection as it is when it returns without calling it
toggle(selected, v) ==
    IF Has(selected, v)
    THEN IF Len(selected) <= 1 THEN selected ELSE Without(selected, v)
    ELSE IF Len(selected) > 1 THEN selected \o <<v>> ELSE <<v>>

\* toggleCompare leaving compare mode with the last selected version
toggleCompareKeepingLast(versions, selected) ==
    IF Len(selected) > 1 THEN <<selected[Len(selected)]>> ELSE versions

\* toggleCompare entering compare mode with the selection followed by the
\* versions not selected
toggleCompareAppending(versions, selected) ==
    LET unselected(v) == ~Has(selected, v)
    IN  IF Len(selected) > 1 THEN <<selected[1]>>
        ELSE selected \o SelectSeq(versions, unselected)

\* const toggleCompare = () => ..., of VersionTabs
toggleCompare(versions, selected) ==
    IF Len(selected) > 1 THEN <<selected[1]>> ELSE versions

\* const handleVersionChange, of App
handleVersionChange(filters, versions) ==
    [filters EXCEPT !.selectedVersions = versions]

\* const togglePlatform, of FilterPanel
togglePlatform(filters, id) ==
    [filters EXCEPT !.selectedPlatforms =
        IF Has(@, id) THEN Without(@, id) ELSE @ \o <<id>>]

\* the ids of the platforms of a group, in the order of data.platforms
MemberIds(d, group) ==
    LET inGroup(p) == p.group = group
        members == SelectSeq(d.platforms, inGroup)
    IN  [i \in DOMAIN members |-> members[i].id]

\* [...new Set(list)]: the first occurrence of each item, in order
RECURSIVE Distinct(_)
Distinct(list) ==
    IF list = <<>> THEN <<>>
    ELSE LET front == Distinct(SubSeq(list, 1, Len(list) - 1))
             last == list[Len(list)]
         IN  IF Has(front, last) THEN front ELSE front \o <<last>>

\* const toggleGroup, of FilterPanel
toggleGroup(d, filters, group) ==
    LET memberIds == MemberIds(d, group)
        isGroupFullySelected ==
            /\ Len(memberIds) > 0
            /\ \A i \in DOMAIN memberIds : Has(filters.selectedPlatforms, memberIds[i])
        notMember(id) == ~Has(memberIds, id)
    IN  [filters EXCEPT !.selectedPlatforms =
            IF isGroupFullySelected
            THEN SelectSeq(@, notMember)
            ELSE Distinct(@ \o memberIds)]

\* const toggleCategory, of FilterPanel
toggleCategory(filters, cat) ==
    [filters EXCEPT !.selectedCategories =
        IF Has(@, cat) THEN Without(@, cat) ELSE @ \o <<cat>>]

\* const toggleSupportLevel, of FilterPanel
toggleSupportLevel(filters, level) ==
    [filters EXCEPT !.selectedSupportLevels =
        IF Has(@, level) THEN Without(@, level) ELSE @ \o <<level>>]

\* clearAll going back to the FilterState the page starts with
clearAllToInitial(filters) ==
    [selectedVersions |-> <<V2>>,
     selectedPlatforms |-> <<>>,
     selectedCategories |-> <<>>,
     selectedSupportLevels |-> <<>>,
     searchQuery |-> <<>>]

\* const clearAll, of FilterPanel
clearAll(filters) ==
    [selectedVersions |-> filters.selectedVersions,
     selectedPlatforms |-> <<>>,
     selectedCategories |-> <<>>,
     selectedSupportLevels |-> <<>>,
     searchQuery |-> <<>>]

\* const selectAllPlatforms, of FilterPanel
selectAllPlatforms(d, filters) ==
    LET allPlatformIds == [i \in DOMAIN d.platforms |-> d.platforms[i].id]
        allPlatformsSelected ==
            /\ Len(allPlatformIds) > 0
            /\ \A i \in DOMAIN allPlatformIds :
                  Has(filters.selectedPlatforms, allPlatformIds[i])
    IN  [filters EXCEPT !.selectedPlatforms =
            IF allPlatformsSelected THEN <<>> ELSE allPlatformIds]

\* onChange of the search input, of FilterPanel
changeSearch(filters, text) == [filters EXCEPT !.searchQuery = text]

\* ------------------------------------------------------------ the callers

\* ids a caller may pass: any string over these characters, catalog id or not
IdChars == {"a", ":"}
Ids == SeqsOver(IdChars, 1, MaxIdLen)

\* FilterState values a caller may pass
VersionSelections == {<<>>, <<V2>>, <<V3>>, <<V2, V3>>}
PlatformSelections == SeqsOver({IdAthena, IdBigQuery, IdTables}, 0, MaxSelected)
CategorySelections == {<<>>, <<"partitioning">>, <<"v3-data-types", "read-write">>}
SupportLevelSelections == {<<>>, <<"none", "full">>}
QueryChars == {"a", "B", " "}
SearchQueries == SeqsOver(QueryChars, 0, MaxQueryLen)

\* interface FilterState
FilterState(versions, platforms, categories, levels, query) ==
    [selectedVersions |-> versions, selectedPlatforms |-> platforms,
     selectedCategories |-> categories, selectedSupportLevels |-> levels,
     searchQuery |-> query]

FilterStates ==
    { FilterState(vs, ps, cs, ls, q) :
        vs \in VersionSelections, ps \in PlatformSelections,
        cs \in CategorySelections, ls \in SupportLevelSelections,
        q \in SearchQueries }

NoCall == [fn |-> "none"]

\* export const data = mergeData(aws); export const dataS3Tables = mergeData(awsTables)
Load(aws, vendors, fj) ==
    /\ files = [aws |-> aws, nonAwsVendors |-> vendors, featuresJson |-> fj]
    /\ data = MergeData(aws, vendors, fj)
    /\ call = NoCall
    /\ memo = NoCall
    /\ ncalls = 0

Init ==
    \E aws \in AwsFiles, vendors \in NonAwsVendorLists, fj \in FeaturesFiles :
        Load(aws, vendors, fj)

\* None of the four exported functions assigns to the snapshot or to the
\* imported modules: each call leaves files and data as they are.

CallSupportKey(platformId, featureId, version) ==
    /\ call' = [fn |-> "supportKey", platformId |-> platformId,
                featureId |-> featureId, version |-> version,
                result |-> supportKey(platformId, featureId, version)]
    /\ UNCHANGED <<files, data>>

\* getSupportEntry that stores the default record under the key it missed
CallGetSupportEntryCaching(platformId, featureId, version) ==
    LET key == supportKey(platformId, featureId, version)
    IN  /\ call' = [fn |-> "getSupportEntry", platformId |-> platformId,
                    featureId |-> featureId, version |-> version,
                    result |-> getSupportEntry(data, platformId, featureId, version)]
        /\ data' = [data EXCEPT !.support =
                        IF key \in DOMAIN data.support THEN @
                        ELSE ObjectAssign(@, [k \in {key} |-> DEFAULT_ENTRY])]
        /\ UNCHANGED files

CallGetSupportEntry(platformId, featureId, version) ==
    /\ call' = [fn |-> "getSupportEntry", platformId |-> platformId,
                featureId |-> featureId, version |-> version,
                result |-> getSupportEntry(data, platformId, featureId, version)]
    /\ UNCHANGED <<files, data>>

\* applyFilters that narrows data.platforms and data.features themselves,
\* removing the items in place instead of building filtered copies
CallApplyFiltersInPlace(filters) ==
    /\ call' = [fn |-> "applyFilters", filters |-> filters,
                result |-> applyFilters(data, filters)]
    /\ data' = [data EXCEPT !.platforms = applyFilters(data, filters).platforms,
                            !.features = applyFilters(data, filters).features]
    /\ UNCHANGED files

CallApplyFilters(filters) ==
    /\ call' = [fn |-> "applyFilters", filters |-> filters,
                result |-> applyFilters(data, filters)]
    /\ UNCHANGED <<files, data>>

CallComputeComparison(platformId, versionA, versionB) ==
    /\ call' = [fn |-> "computeComparison", platformId |-> platformId,
                versionA |-> versionA, versionB |-> versionB,
                result |-> computeComparison(data, platformId, versionA, versionB)]
    /\ UNCHANGED <<files, data>>

\* React renders App with the FilterState its useState holds
RenderApp(filters) ==
    /\ call' = [fn |-> "App", filters |-> filters, result |-> App(data, filters)]
    /\ UNCHANGED <<files, data>>

\* a test mounts VersionTabs with the props versions and selected, clicks the
\* tab of version v and reads what the page's selection becomes
CallToggle(selected, v) ==
    /\ call' = [fn |-> "toggle", versions |-> data.versions,
                selected |-> selected, version |-> v,
                result |-> toggle(selected, v)]
    /\ UNCHANGED <<files, data>>

\* the same with a click on the Compare button
CallToggleCompare(selected) ==
    /\ call' = [fn |-> "toggleCompare", versions |-> data.versions,
                selected |-> selected,
                result |-> toggleCompare(data.versions, selected)]
    /\ UNCHANGED <<files, data>>

\* a test mounts FilterPanel with the prop filters and clicks Clear all
CallClearAll(filters) ==
    /\ call' = [fn |-> "clearAll", filters |-> filters,
                result |-> clearAll(filters)]
    /\ UNCHANGED <<files, data>>

\* the selected props a test may pass to VersionTabs
SelectedProps == SeqsOver(Version, 0, 2)

\* a caller makes one call on the freshly built snapshot
Next ==
    \/ /\ ncalls = 0
       /\ \E p \in Ids, f \in Ids, v \in Version : CallSupportKey(p, f, v)
       /\ ncalls' = 1 /\ UNCHANGED memo
    \/ /\ ncalls = 0
       /\ \E p \in Ids, f \in Ids, v \in Version : CallGetSupportEntry(p, f, v)
       /\ ncalls' = 1 /\ UNCHANGED memo
    \/ /\ ncalls = 0
       /\ \E filters \in FilterStates : CallApplyFilters(filters)
       /\ ncalls' = 1 /\ UNCHANGED memo
    \/ /\ ncalls = 0
       /\ \E p \in Ids, a \in Version, b \in Version :
             CallComputeComparison(p, a, b)
       /\ ncalls' = 1 /\ UNCHANGED memo
    \/ /\ ncalls = 0
       /\ \E filters \in FilterStates : RenderApp(filters)
       /\ ncalls' = 1 /\ UNCHANGED memo
    \/ /\ ncalls = 0
       /\ \E selected \in SelectedProps, v \in Range(data.versions) :
             CallToggle(selected, v)
       /\ ncalls' = 1 /\ UNCHANGED memo
    \/ /\ ncalls = 0
       /\ \E selected \in SelectedProps : CallToggleCompare(selected)
       /\ ncalls' = 1 /\ UNCHANGED memo
    \/ /\ ncalls = 0
       /\ \E filters \in FilterStates : CallClearAll(filters)
       /\ ncalls' = 1 /\ UNCHANGED memo

Spec == Init /\ [][Next]_vars

\* A caller that keeps the result of its first applyFilters call and goes on
\* calling: lookups, comparisons, applyFilters with other FilterStates and
\* with the first one again (as App and CompatibilityMatrix do in one render).

LaterFilters ==
    { FilterState(<<V2>>, <<>>, <<"partitioning">>, <<>>, <<>>),
      FilterState(<<V2, V3>>, <<IdBigQuery>>, <<>>, <<"none", "full">>, <<"B">>) }

\* export const data = mergeData(aws), the snapshot App renders
InitRepeat == Load(Aws, <<Gcp, NoVendor, NoVendor, NoVendor, NoVendor>>, FeaturesJson)

NextRepeat ==
    \/ /\ ncalls = 0
       /\ \E filters \in FilterStates : CallApplyFilters(filters)
       /\ memo' = call'
       /\ ncalls' = 1
    \/ /\ 0 < ncalls /\ ncalls < MaxCalls
       /\ CallApplyFilters(memo.filters)
       /\ ncalls' = ncalls + 1 /\ UNCHANGED memo
    \/ /\ 0 < ncalls /\ ncalls < MaxCalls
       /\ \E filters \in LaterFilters : CallApplyFilters(filters)
       /\ ncalls' = ncalls + 1 /\ UNCHANGED memo
    \/ /\ 0 < ncalls /\ ncalls < MaxCalls
       /\ \E p \in {IdAthena, IdTables} : CallGetSupportEntry(p, IdRead, V3)
       /\ ncalls' = ncalls + 1 /\ UNCHANGED memo
    \/ /\ 0 < ncalls /\ ncalls < MaxCalls
       /\ CallComputeComparison(IdAthena, V2, V3)
       /\ ncalls' = ncalls + 1 /\ UNCHANGED memo
    \/ /\ 0 < ncalls /\ ncalls < MaxCalls
       /\ \E filters \in LaterFilters : RenderApp(filters)
       /\ ncalls' = ncalls + 1 /\ UNCHANGED memo

SpecRepeat == InitRepeat /\ [][NextRepeat]_vars

\* The module loaded from JSON files of which some are not of the declared
\* shape; when mergeData returns, a caller makes one call on the snapshot.

ShapesOf(file) ==
    { Raw(file), WithoutPlatforms(file), WithoutSupport(file),
      PlatformsById(file), SupportAsList(file) }

InitLoad ==
    \E aws \in ShapesOf(Aws), gcp \in ShapesOf(Gcp), oss \in ShapesOf(Oss) :
        /\ files = [aws |-> aws,
                    nonAwsVendors |-> <<gcp, Raw(NoVendor), Raw(NoVendor),
                                        Raw(NoVendor), oss>>,
                    featuresJson |-> FeaturesJson]
        /\ data = MergeDataRaw(files.aws, files.nonAwsVendors, files.featuresJson)
        /\ call = NoCall
        /\ memo = NoCall
        /\ ncalls = 0

NextLoad ==
    \/ /\ ncalls = 0 /\ "thrown" \notin DOMAIN data
       /\ \E p \in Ids, f \in Ids, v \in Version : CallGetSupportEntry(p, f, v)
       /\ ncalls' = 1 /\ UNCHANGED memo
    \/ /\ ncalls = 0 /\ "thrown" \notin DOMAIN data
       /\ \E filters \in LaterFilters : CallApplyFilters(filters)
       /\ ncalls' = 1 /\ UNCHANGED memo

SpecLoad == InitLoad /\ [][NextLoad]_vars

\* ------------------------------------------------------- a page session
\* App holds the FilterState in useState(initialFilters) and renders from it;
\* every handler of VersionTabs and FilterPanel hands App the next FilterState
\* and App renders again. call is the latest render, memo the latest event.

\* const initialFilters, of App
initialFilters == FilterState(<<V2>>, <<>>, <<>>, <<>>, <<>>)

\* const GROUP_ORDER, of FilterPanel: the groups of the modelled platforms
GROUP_ORDER == <<AWS, GCP, ThirdParty>>

\* the platform chips FilterPanel shows: those of the groups with more than
\* one platform of which at least one is selected (activeExpandable)
PlatformChips(d, filters) ==
    { d.platforms[i].id : i \in
        { j \in DOMAIN d.platforms :
            LET memberIds == MemberIds(d, d.platforms[j].group)
            IN  /\ Len(memberIds) > 1
                /\ \E k \in DOMAIN memberIds :
                      Has(filters.selectedPlatforms, memberIds[k]) } }

\* the category chips and support-level chips a session clicks
CategoryChips == {"partitioning", "read-write"}
LevelChips == {"full", "none"}
\* the texts a session leaves in the search input
TypedQueries == {<<>>, <<"a">>, <<"B">>}

\* const hasFilters, of FilterPanel: the "Clear all" button is shown
hasFilters(filters) ==
    \/ Len(filters.selectedPlatforms) > 0
    \/ Len(filters.selectedCategories) > 0
    \/ Len(filters.selectedSupportLevels) > 0
    \/ Trim(filters.searchQuery) # <<>>

InitUI ==
    \E aws \in AwsFiles :
        /\ files = [aws |-> aws,
                    nonAwsVendors |-> <<Gcp, NoVendor, NoVendor, NoVendor, NoVendor>>,
                    featuresJson |-> FeaturesJson]
        /\ data = MergeData(aws, files.nonAwsVendors, FeaturesJson)
        /\ call = [fn |-> "App", filters |-> initialFilters,
                   result |-> App(data, initialFilters)]
        /\ memo = NoCall
        /\ ncalls = 0

\* setFilters(next) and the render that follows
Dispatch(event, arg, next) ==
    /\ memo' = [fn |-> event, arg |-> arg, filters |-> call.filters]
    /\ RenderApp(next)
    /\ UNCHANGED ncalls

ClickVersionTab(v) ==
    Dispatch("toggle", v,
             handleVersionChange(call.filters, toggle(call.filters.selectedVersions, v)))

ClickCompare ==
    Dispatch("toggleCompare", <<>>,
             handleVersionChange(call.filters,
                 toggleCompare(data.versions, call.filters.selectedVersions)))

ClickGroup(group) ==
    Dispatch("toggleGroup", group, toggleGroup(data, call.filters, group))

ClickPlatform(id) ==
    Dispatch("togglePlatform", id, togglePlatform(call.filters, id))

ClickSelectAll ==
    Dispatch("selectAllPlatforms", <<>>, selectAllPlatforms(data, call.filters))

ClickCategory(cat) ==
    Dispatch("toggleCategory", cat, toggleCategory(call.filters, cat))

ClickSupportLevel(level) ==
    Dispatch("toggleSupportLevel", level, toggleSupportLevel(call.filters, level))

\* the Clear checkbox
ClickClear ==
    Dispatch("clearAll", "checkbox", clearAll(call.filters))

\* the "Clear all" button, shown while hasFilters
ClickClearAll ==
    /\ hasFilters(call.filters)
    /\ Dispatch("clearAll", "button", clearAll(call.filters))

TypeSearch(text) ==
    Dispatch("changeSearch", text, changeSearch(call.filters, text))

NextUI ==
    \/ \E v \in Range(data.versions) : ClickVersionTab(v)
    \/ ClickCompare
    \/ \E g \in DOMAIN GROUP_ORDER : ClickGroup(GROUP_ORDER[g])
    \/ \E id \in PlatformChips(data, call.filters) : ClickPlatform(id)
    \/ ClickSelectAll
    \/ \E cat \in CategoryChips : ClickCategory(cat)
    \/ \E level \in LevelChips : ClickSupportLevel(level)
    \/ ClickClear
    \/ ClickClearAll
    \/ \E text \in TypedQueries : TypeSearch(text)

SpecUI == InitUI /\ [][NextUI]_vars

\* ------------------------------------------------------------- properties

PlatformIds == { data.platforms[i].id : i \in DOMAIN data.platforms }
FeatureIds == { data.features[i].id : i \in DOMAIN data.features }

\* the (platformId, featureId, version) triples of the catalog
TriplesInUse == PlatformIds \X FeatureIds \X Range(data.versions)

CallTriple == <<call.platformId, call.featureId, call.version>>

\* C1: getSupportEntry never fails: for every platformId, featureId and
\* version, of the catalog or not, it returns the record stored in
\* data.support under platformId:featureId:version when that key is present,
\* and otherwise exactly {level: "unknown", notes: "", caveats: []}, which has
\* no links.
C1_LookupOrDefault ==
    call.fn = "getSupportEntry" =>
        LET key == call.platformId \o <<":">> \o call.featureId
                      \o <<":">> \o call.version
        IN  IF key \in DOMAIN data.support
            THEN call.result = data.support[key]
            ELSE /\ DOMAIN call.result = {"level", "notes", "caveats"}
                 /\ call.result.level = "unknown"
                 /\ call.result.notes = ""
                 /\ call.result.caveats = <<>>

\* a lookup miss for a platform id that is not in the catalog
C1_Witness ==
    /\ call.fn = "getSupportEntry"
    /\ call.platformId \notin PlatformIds
    /\ supportKey(call.platformId, call.featureId, call.version)
          \notin DOMAIN data.support
    /\ call.result.level = "unknown"

\* C2: supportKey(platformId, featureId, version) is exactly platformId, ":",
\* featureId, ":", version, in that order and with nothing else; a lookup of a
\* triple finds the entry the JSON files store under that triple's key.
C2_KeyFormat ==
    /\ call.fn = "supportKey" =>
        LET k == call.result
            lp == Len(call.platformId)
            lf == Len(call.featureId)
            lv == Len(call.version)
        IN  /\ Len(k) = lp + lf + lv + 2
            /\ SubSeq(k, 1, lp) = call.platformId
            /\ k[lp + 1] = ":"
            /\ SubSeq(k, lp + 2, lp + lf + 1) = call.featureId
            /\ k[lp + lf + 2] = ":"
            /\ SubSeq(k, lp + lf + 3, lp + lf + lv + 2) = call.version
    /\ call.fn = "getSupportEntry" =>
        LET stored == JsonKey(call.platformId, call.featureId, call.version)
        IN  stored \in DOMAIN data.support => call.result = data.support[stored]

\* the key of a catalog triple that has an entry in the loaded mapping
C2_Witness ==
    /\ call.fn = "supportKey"
    /\ CallTriple \in TriplesInUse
    /\ call.platformId # call.featureId
    /\ call.result \in DOMAIN data.support

\* the other triples of the catalog to which supportKey gives this key
SameKeyTriples(key) ==
    { t \in TriplesInUse : t # CallTriple /\ supportKey(t[1], t[2], t[3]) = key }

\* the other triples of the catalog whose entry the JSON files store under
\* the key that a lookup of the call's triple reads
StoredForAnother ==
    { t \in TriplesInUse :
        /\ t # CallTriple
        /\ JsonKey(t[1], t[2], t[3])
              = supportKey(call.platformId, call.featureId, call.version)
        /\ JsonKey(t[1], t[2], t[3]) \in DOMAIN data.support }

KeyIsOfCallOnly ==
    /\ (call.fn = "supportKey" /\ CallTriple \in TriplesInUse)
          => SameKeyTriples(call.result) = {}
    /\ (call.fn = "getSupportEntry" /\ CallTriple \in TriplesInUse)
          => StoredForAnother = {}

\* C3 as stated: over the platform ids, feature ids and versions in use, two
\* different triples never have the same key, and a lookup never returns the
\* entry stored for another triple.
C3_InjectiveAsStated == KeyIsOfCallOnly

NoDelimiterInIds == \A id \in PlatformIds \cup FeatureIds : ":" \notin Range(id)

\* C3 as amended: the same, for a catalog in which no platform id and no
\* feature id contains the delimiter ":".
C3_InjectiveWithoutDelimiter == NoDelimiterInIds => KeyIsOfCallOnly

\* a key of a catalog without ":" in its ids, whose ids concatenate alike
C3_Witness ==
    /\ NoDelimiterInIds
    /\ call.fn = "supportKey"
    /\ CallTriple \in TriplesInUse
    /\ \E t \in TriplesInUse :
          t # CallTriple /\ t[1] \o t[2] = call.platformId \o call.featureId

\* ---- what the filter rules say, item by item

\* the j-th smallest index of a set of indices
NthOf(idx, j) == CHOOSE i \in idx : Cardinality({ k \in idx : k <= i }) = j

\* the items of a list at the given indices, in the order of the list
KeptInOrder(list, idx) == [j \in 1..Cardinality(idx) |-> list[NthOf(idx, j)]]

Filters == call.filters

Occurs(x, list) == \E k \in DOMAIN list : list[k] = x

\* the feature is not one the version selection hides
PassesGate(f) == Occurs(V3, Filters.selectedVersions) \/ f.introducedIn # V3

\* the feature is not one the category selection removes
PassesCategory(f) ==
    Filters.selectedCategories = <<>> \/ Occurs(f.category, Filters.selectedCategories)

BlankQuery == \A i \in DOMAIN Filters.searchQuery : Filters.searchQuery[i] \in WhiteSpace

\* the query from its first to its last non-blank character, lower-cased
Needle ==
    LET q == Filters.searchQuery
        solid == { i \in DOMAIN q : q[i] \notin WhiteSpace }
        first == CHOOSE i \in solid : \A k \in solid : i <= k
        last == CHOOSE i \in solid : \A k \in solid : k <= i
    IN  [j \in 1..(last - first + 1) |-> LowerChar(q[first + j - 1])]

\* text, lower-cased, holds the needle as a contiguous substring
Contains(text, needle) ==
    \E offset \in 0..Len(text) :
        /\ offset + Len(needle) <= Len(text)
        /\ \A k \in 1..Len(needle) : LowerChar(text[offset + k]) = needle[k]

\* the feature is not one the search removes
PassesSearch(f) == BlankQuery \/ Contains(f.name, Needle)

FeatureIndices(Passes(_)) == { i \in DOMAIN data.features : Passes(data.features[i]) }

\* C4: platform narrowing is an inclusion list: with selectedPlatforms empty
\* the output platforms equal data.platforms; otherwise they are exactly the
\* platforms of data.platforms whose id occurs in selectedPlatforms, in their
\* order in data.platforms, whatever the order, the repetitions and the
\* unmatched ids of selectedPlatforms.
C4_PlatformInclusion ==
    call.fn = "applyFilters" =>
        IF Filters.selectedPlatforms = <<>>
        THEN call.result.platforms = data.platforms
        ELSE call.result.platforms =
                KeptInOrder(data.platforms,
                    { i \in DOMAIN data.platforms :
                        Occurs(data.platforms[i].id, Filters.selectedPlatforms) })

\* two platforms selected in the reverse of their catalog order, a third left out
C4_Witness ==
    /\ call.fn = "applyFilters"
    /\ Len(Filters.selectedPlatforms) = 2
    /\ Len(call.result.platforms) = 2
    /\ Len(data.platforms) = 3
    /\ call.result.platforms[1].id = Filters.selectedPlatforms[2]
    /\ call.result.platforms[2].id = Filters.selectedPlatforms[1]

\* C5: when "v3" is not among selectedVersions (an empty selection included),
\* no feature with introducedIn = "v3" is in the returned feature list,
\* whatever the other filter fields are.
C5_V3Excluded ==
    (call.fn = "applyFilters" /\ ~Occurs(V3, Filters.selectedVersions)) =>
        \A i \in DOMAIN call.result.features :
            call.result.features[i].introducedIn # V3

\* v3 not selected, and a v3 feature that category and search would let through
C5_Witness ==
    /\ call.fn = "applyFilters"
    /\ ~Occurs(V3, Filters.selectedVersions)
    /\ \E i \in DOMAIN data.features :
          /\ data.features[i].introducedIn = V3
          /\ PassesCategory(data.features[i])
          /\ PassesSearch(data.features[i])
          /\ Filters.selectedCategories # <<>>
          /\ ~BlankQuery
    /\ call.result.features # <<>>

\* C6: when "v3" is among selectedVersions, the returned feature list is
\* exactly the features that pass the category filter and the search filter,
\* v3-introduced ones included: version selection removes nothing.
C6_V3Included ==
    (call.fn = "applyFilters" /\ Occurs(V3, Filters.selectedVersions)) =>
        call.result.features =
            KeptInOrder(data.features,
                FeatureIndices(LAMBDA f : PassesCategory(f) /\ PassesSearch(f)))

\* v3 selected: a v3 feature returned, another feature removed by the search
C6_Witness ==
    /\ call.fn = "applyFilters"
    /\ Occurs(V3, Filters.selectedVersions)
    /\ \E i \in DOMAIN call.result.features :
          call.result.features[i].introducedIn = V3
    /\ ~BlankQuery
    /\ Filters.selectedCategories # <<>>
    /\ Len(call.result.features) < Len(data.features)

\* C7: category narrowing is an inclusion list: with selectedCategories empty
\* no feature is removed for its category; otherwise a feature is kept only
\* if its category occurs in selectedCategories; the kept features are in
\* their order in data.features.
C7_CategoryInclusion ==
    call.fn = "applyFilters" =>
        /\ Filters.selectedCategories = <<>> =>
              call.result.features =
                  KeptInOrder(data.features,
                      FeatureIndices(LAMBDA f : PassesGate(f) /\ PassesSearch(f)))
        /\ \A i \in DOMAIN call.result.features :
              PassesCategory(call.result.features[i])
        /\ call.result.features =
              KeptInOrder(data.features,
                  FeatureIndices(LAMBDA f : Occurs(f, call.result.features)))

\* two categories selected: two features kept in catalog order, one removed
\* for its category alone
C7_Witness ==
    /\ call.fn = "applyFilters"
    /\ Len(Filters.selectedCategories) = 2
    /\ Len(call.result.features) = 2
    /\ call.result.features[1].category = Filters.selectedCategories[2]
    /\ \E i \in DOMAIN data.features :
          /\ ~PassesCategory(data.features[i])
          /\ PassesGate(data.features[i])
          /\ PassesSearch(data.features[i])

\* C8: with searchQuery empty or all whitespace the search removes no
\* feature; otherwise a feature is kept only if its lower-cased name holds
\* the trimmed, lower-cased query as a contiguous substring: id, description
\* and category do not count.
C8_SearchByName ==
    call.fn = "applyFilters" =>
        IF BlankQuery
        THEN call.result.features =
                KeptInOrder(data.features,
                    FeatureIndices(LAMBDA f : PassesGate(f) /\ PassesCategory(f)))
        ELSE \A i \in DOMAIN call.result.features :
                Contains(call.result.features[i].name, Needle)

\* a query with blanks around it and in another case than the name it finds,
\* and a feature removed although its id holds the query
C8_Witness ==
    /\ call.fn = "applyFilters"
    /\ ~BlankQuery
    /\ Len(Needle) < Len(Filters.searchQuery)
    /\ \E i \in DOMAIN call.result.features :
          ~Includes(call.result.features[i].name, Trim(Filters.searchQuery))
    /\ \E i \in DOMAIN data.features :
          /\ ~Occurs(data.features[i], call.result.features)
          /\ PassesGate(data.features[i])
          /\ PassesCategory(data.features[i])
          /\ Contains(data.features[i].id, Needle)

\* C9: applyFilters does not consume selectedSupportLevels: the FilterStates
\* that differ from the call's only in selectedSupportLevels give, on the
\* same data, the platform list and the feature list the call gave.
C9_SupportLevelsIgnored ==
    call.fn = "applyFilters" =>
        \A levels \in SupportLevelSelections :
            applyFilters(data, [Filters EXCEPT !.selectedSupportLevels = levels])
                = call.result

\* support levels selected, and a returned feature that has no entry of a
\* selected level on any returned platform
C9_Witness ==
    /\ call.fn = "applyFilters"
    /\ Filters.selectedSupportLevels # <<>>
    /\ call.result.platforms # <<>>
    /\ \E i \in DOMAIN call.result.features :
          \A j \in DOMAIN call.result.platforms, v \in Version :
              ~Occurs(getSupportEntry(data, call.result.platforms[j].id,
                                      call.result.features[i].id, v).level,
                      Filters.selectedSupportLevels)

\* C10: applyFilters is repeatable: applied again to the FilterState of an
\* earlier call on the same data, after any applyFilters, getSupportEntry and
\* computeComparison calls in between, it returns the same platform list and
\* the same feature list, element by element.
C10_Repeatable ==
    (memo # NoCall /\ call.fn = "applyFilters" /\ call.filters = memo.filters) =>
        /\ call.result.platforms = memo.result.platforms
        /\ call.result.features = memo.result.features

\* the third call of a caller is applyFilters with the FilterState of its
\* first, which narrowed both lists without emptying them
C10_Witness ==
    /\ ncalls = 3
    /\ call.fn = "applyFilters"
    /\ call.filters = memo.filters
    /\ call.result.platforms # <<>>
    /\ call.result.features # <<>>
    /\ Len(call.result.platforms) < Len(data.platforms)
    /\ Len(call.result.features) < Len(data.features)

\* ---- what the comparison rules say, feature by feature

\* the level a lookup gives the platform of the call for feature f at version v
LevelAt(f, v) == getSupportEntry(data, call.platformId, f.id, v).level

Gained(f) ==
    LevelAt(f, call.versionA) = "none" /\ LevelAt(f, call.versionB) # "none"

Lost(f) ==
    LevelAt(f, call.versionA) # "none" /\ LevelAt(f, call.versionB) = "none"

Changed(f) ==
    /\ LevelAt(f, call.versionA) # LevelAt(f, call.versionB)
    /\ ~Gained(f)
    /\ ~Lost(f)

\* C11: computeComparison classifies each feature of data once: equal levels
\* at A and B are not counted; none at A and not none at B is gained; not
\* none at A and none at B is lost; any other unequal pair is changed.  The
\* three counters are the sizes of these three classes, which are disjoint,
\* so they never add up to more than the number of features.
C11_ThreeWayClassifier ==
    call.fn = "computeComparison" =>
        /\ call.result.gained = Cardinality(FeatureIndices(Gained))
        /\ call.result.lost = Cardinality(FeatureIndices(Lost))
        /\ call.result.changed = Cardinality(FeatureIndices(Changed))
        /\ call.result.gained + call.result.lost + call.result.changed
              <= Len(data.features)

\* one feature none -> full, one full -> none, one partial -> full: 1, 1, 1
C11_Witness ==
    /\ call.fn = "computeComparison"
    /\ call.result = [gained |-> 1, lost |-> 1, changed |-> 1]
    /\ \E x, y, z \in Range(data.features) :
          /\ LevelAt(x, call.versionA) = "none"
          /\ LevelAt(x, call.versionB) = "full"
          /\ LevelAt(y, call.versionA) = "full"
          /\ LevelAt(y, call.versionB) = "none"
          /\ LevelAt(z, call.versionA) = "partial"
          /\ LevelAt(z, call.versionB) = "full"

\* the FilterState of the call with no category, level or text chosen
PlainFilters ==
    [Filters EXCEPT !.selectedCategories = <<>>,
                    !.selectedSupportLevels = <<>>,
                    !.searchQuery = <<>>]

\* C12: the comparison summary counts over the full catalog: App shows the
\* summary it shows for the same selectedVersions and selectedPlatforms with
\* no category, support level or search text chosen (so the summary is the
\* same for every value of these three); when shown, it has one card for each
\* platform applyFilters returns, with computeComparison over data for it.
C12_SummaryOverFullCatalog ==
    call.fn = "App" =>
        /\ call.result.summary = App(data, PlainFilters).summary
        /\ call.result.summary.shown <=> Len(Filters.selectedVersions) > 1
        /\ call.result.summary.shown =>
              LET platforms == applyFilters(data, Filters).platforms
                  cards == call.result.summary.cards
              IN  /\ Len(cards) = Len(platforms)
                  /\ \A i \in DOMAIN cards :
                        /\ cards[i].key = platforms[i].id
                        /\ cards[i].counts =
                              computeComparison(data, platforms[i].id,
                                  Filters.selectedVersions[1],
                                  Filters.selectedVersions[2])

\* a summary of some but not all platforms, one of them with more differences
\* than the category and the search text leave features
C12_Witness ==
    /\ call.fn = "App"
    /\ call.result.summary.shown
    /\ Filters.selectedCategories # <<>>
    /\ ~BlankQuery
    /\ Filters.selectedSupportLevels # <<>>
    /\ Len(call.result.summary.cards) < Len(data.platforms)
    /\ \E i \in DOMAIN call.result.summary.cards :
          LET c == call.result.summary.cards[i].counts
          IN  c.gained + c.lost + c.changed
                 > Len(applyFilters(data, Filters).features)

\* ---- what the merge rules say, partition by partition

\* the vendor partitions in merge order: AWS, gcp, azure, databricks,
\* snowflake, oss
Partitions == <<files.aws>> \o files.nonAwsVendors

KeysOf(i) == DOMAIN Partitions[i].support

\* the partitions that define key k
Defining(k) == { i \in DOMAIN Partitions : k \in KeysOf(i) }

DisjointKeys ==
    \A i, j \in DOMAIN Partitions : i # j => KeysOf(i) \cap KeysOf(j) = {}

RECURSIVE SumOfSizes(_)
SumOfSizes(i) == IF i = 0 THEN 0 ELSE Cardinality(KeysOf(i)) + SumOfSizes(i - 1)

\* C13: the merged platform list is the AWS partition's platforms followed by
\* those of gcp, azure, databricks, snowflake and oss, in that order, each
\* partition's platforms in their order in the partition: nothing dropped,
\* nothing duplicated.
C13_PlatformsInSourceOrder ==
    /\ Len(files.nonAwsVendors) = 5
    /\ data.platforms =
          files.aws.platforms
             \o files.nonAwsVendors[1].platforms
             \o files.nonAwsVendors[2].platforms
             \o files.nonAwsVendors[3].platforms
             \o files.nonAwsVendors[4].platforms
             \o files.nonAwsVendors[5].platforms

\* a snapshot of three partitions with platforms, the first with two of them
C13_Witness ==
    /\ Len(files.aws.platforms) = 2
    /\ files.nonAwsVendors[1].platforms # <<>>
    /\ files.nonAwsVendors[5].platforms # <<>>
    /\ Len(data.platforms) = 4

\* C14: when the partitions' support key sets are pairwise disjoint, the
\* merged mapping has as many keys as the partitions have together, and each
\* key maps to the entry its partition gave it.
C14_DisjointMerge ==
    DisjointKeys =>
        /\ Cardinality(DOMAIN data.support) = SumOfSizes(Len(Partitions))
        /\ \A i \in DOMAIN Partitions : \A k \in KeysOf(i) :
              /\ k \in DOMAIN data.support
              /\ data.support[k] = Partitions[i].support[k]

\* three partitions with entries and no key in two of them
C14_Witness ==
    /\ DisjointKeys
    /\ Cardinality({ i \in DOMAIN Partitions : KeysOf(i) # {} }) = 3
    /\ Cardinality(DOMAIN data.support) > Cardinality(KeysOf(1))

\* C15: a key that several partitions define maps, in the merged mapping, to
\* the entry of the last of them in merge order; the merge still yields a
\* snapshot, whose keys are those of all partitions, and a key that one
\* partition defines maps to that partition's entry.
C15_LastWriteWins ==
    /\ DOMAIN data.support = UNION { KeysOf(i) : i \in DOMAIN Partitions }
    /\ \A k \in DOMAIN data.support :
          LET last == CHOOSE i \in Defining(k) : \A j \in Defining(k) : j <= i
          IN  data.support[k] = Partitions[last].support[k]

\* a key of the AWS partition that oss defines too, with another entry
C15_Witness ==
    \E k \in KeysOf(1) \cap KeysOf(6) :
        /\ Partitions[1].support[k] # Partitions[6].support[k]
        /\ data.support[k] = Partitions[6].support[k]
        /\ \E k2 \in KeysOf(1) : Defining(k2) = {1}

C17_HiddenUnlessIntroducingVersionSelected ==
    call.fn = "applyFilters" =>
        \A i \in DOMAIN data.features :
            ~Occurs(data.features[i].introducedIn, Filters.selectedVersions)
                => ~Occurs(data.features[i], call.result.features)

\* C17 as amended: a feature introduced in v3 is not in the returned list
\* when v3 is not among selectedVersions; a feature introduced in another
\* version is not hidden by the version selection: it is returned whenever it
\* passes the category and the search filter, selected version or not.
C17_OnlyV3IsGated ==
    call.fn = "applyFilters" =>
        \A i \in DOMAIN data.features :
            LET f == data.features[i]
            IN  /\ (f.introducedIn = V3 /\ ~Occurs(V3, Filters.selectedVersions))
                      => ~Occurs(f, call.result.features)
                /\ (f.introducedIn # V3 /\ PassesCategory(f) /\ PassesSearch(f))
                      => Occurs(f, call.result.features)

\* only v3 selected, and a feature introduced in v2 returned
C17_Witness ==
    /\ call.fn = "applyFilters"
    /\ Filters.selectedVersions = <<V3>>
    /\ \E i \in DOMAIN call.result.features :
          call.result.features[i].introducedIn = V2
    /\ \E i \in DOMAIN call.result.features :
          call.result.features[i].introducedIn = V3

\* the vendor files as loaded, in merge order
RawPartitions == <<files.aws>> \o files.nonAwsVendors

\* a required field is missing or is not of the declared shape
Malformed(raw) == raw.platforms.kind # "array" \/ raw.support.kind # "object"

\* C18: a vendor partition with a required field (platforms, support) missing
\* or of the wrong shape is a fatal load-time fault: mergeData throws, and no
\* CompatibilityData is built from the other partitions.
C18_MalformedIsFatal ==
    (\E i \in DOMAIN RawPartitions : Malformed(RawPartitions[i]))
        => "thrown" \in DOMAIN data

\* C19: the snapshot is read-only after construction: no applyFilters,
\* getSupportEntry (hit or miss) or computeComparison call and no render of
\* the page changes data.platforms, data.features, data.versions or
\* data.support; a lookup miss does not add the default record to
\* data.support.
C19_SnapshotReadOnly ==
    [][/\ data'.platforms = data.platforms
       /\ data'.features = data.features
       /\ data'.versions = data.versions
       /\ data'.support = data.support]_vars

\* the third call of a caller is a lookup miss, and the key it missed is
\* still not a key of data.support
C19_Witness ==
    /\ ncalls = 3
    /\ call.fn = "getSupportEntry"
    /\ call.result = DEFAULT_ENTRY
    /\ supportKey(call.platformId, call.featureId, call.version)
          \notin DOMAIN data.support
    /\ data = MergeData(files.aws, files.nonAwsVendors, files.featuresJson)

\* C20: an empty filter result is not an error: when applyFilters returns no
\* platform or no feature, the matrix is the paragraph "No compatibility data
\* available for the current filters." and not a grid; when it returns at
\* least one of each, the matrix is the grid of these platforms and features.
C20_EmptyStateOrGrid ==
    call.fn = "App" =>
        LET r == applyFilters(data, Filters)
            matrix == call.result.matrix
        IN  IF r.platforms = <<>> \/ r.features = <<>>
            THEN /\ matrix.view = "empty"
                 /\ matrix.text =
                       "No compatibility data available for the current filters."
            ELSE /\ matrix.view = "grid"
                 /\ Len(matrix.header) = Len(r.platforms)
                 /\ \A g \in DOMAIN matrix.groups :
                       /\ matrix.groups[g].rows # <<>>
                       /\ \A k \in DOMAIN matrix.groups[g].rows :
                             Len(matrix.groups[g].rows[k].cells) = Len(r.platforms)

\* the selected platform is not in the snapshot, while features pass: the
\* empty state is shown
C20_Witness ==
    /\ call.fn = "App"
    /\ Filters.selectedPlatforms # <<>>
    /\ applyFilters(data, Filters).platforms = <<>>
    /\ applyFilters(data, Filters).features # <<>>
    /\ call.result.matrix.view = "empty"


\* ---- C25: the page never has an empty version selection
\* From the initial FilterState, after any sequence of version-tab clicks,
\* Compare toggles and filter-panel events, selectedVersions is not empty.
C25_VersionAlwaysSelected ==
    call.fn = "App" => call.filters.selectedVersions # <<>>

\* the tab of the only selected version was clicked and it is still selected
C25_Witness ==
    /\ call.fn = "App"
    /\ memo.fn = "toggle"
    /\ memo.filters.selectedVersions = <<memo.arg>>
    /\ call.filters.selectedVersions = <<memo.arg>>



\* ---- C21: the matrix can be filtered by support level
\* When support levels are chosen and the grid shows an entry of a level that
\* is not chosen, the matrix displayed differs from the one displayed for the
\* same filters with no support level chosen.
C21_SupportLevelFilters ==
    LET shown == applyFilters(data, Filters)
        chosen == Range(Filters.selectedSupportLevels)
        unchosenShown ==
            \E p \in DOMAIN shown.platforms, f \in DOMAIN shown.features,
               v \in DOMAIN Filters.selectedVersions :
                getSupportEntry(data, shown.platforms[p].id, shown.features[f].id,
                                Filters.selectedVersions[v]).level \notin chosen
    IN  (/\ call.fn = "App"
         /\ Filters.selectedSupportLevels # <<>>
         /\ unchosenShown)
        => call.result.matrix #
              CompatibilityMatrix(data, [Filters EXCEPT !.selectedSupportLevels = <<>>])



\* ---- C22: the filter steps of applyFilters commute
\* Applying the version gate, the category filter and the search filter to
\* data.features in any of the six orders gives the feature list applyFilters
\* returns; the platform list does not depend on the three feature filters,
\* nor the feature list on selectedPlatforms.
C22_StepsCommute ==
    LET gate(fs) == hideV3OnlyFeatures(fs, Filters)
        cats(fs) == featuresBySelectedCategories(fs, Filters)
        search(fs) == featuresBySearchQuery(fs, Filters)
        all == data.features
        platformsOnly == FilterState(<<>>, Filters.selectedPlatforms, <<>>, <<>>, <<>>)
    IN  call.fn = "applyFilters" =>
           /\ call.result.features = search(cats(gate(all)))
           /\ call.result.features = cats(search(gate(all)))
           /\ call.result.features = search(gate(cats(all)))
           /\ call.result.features = gate(search(cats(all)))
           /\ call.result.features = cats(gate(search(all)))
           /\ call.result.features = gate(cats(search(all)))
           /\ call.result.platforms = applyFilters(data, platformsOnly).platforms
           /\ call.result.features =
                 applyFilters(data, [Filters EXCEPT !.selectedPlatforms = <<>>]).features

\* every one of the four steps removes something on its own
C22_Witness ==
    /\ call.fn = "applyFilters"
    /\ hideV3OnlyFeatures(data.features, Filters) # data.features
    /\ featuresBySelectedCategories(data.features, Filters) # data.features
    /\ featuresBySearchQuery(data.features, Filters) # data.features
    /\ call.result.platforms # data.platforms
    /\ call.result.platforms # <<>>
    /\ call.result.features # <<>>



\* ---- C23: in a comparison "unknown" is a level like the others and a
\* missing entry counts as "unknown"

\* what data.support holds for the platform of the call, feature f, version v
Stored(f, v) ==
    LET key == supportKey(call.platformId, f.id, v)
    IN  IF key \in DOMAIN data.support THEN data.support[key].level ELSE "absent"

Unknown(f, v) == Stored(f, v) \in {"absent", "unknown"}
Supported(f, v) == Stored(f, v) \in {"full", "partial"}

\* absent or unknown at A and none at B is lost; none at A and absent or
\* unknown at B is gained; absent or unknown against full or partial is
\* changed; absent or unknown at both versions is not counted.
C23_UnknownIsALevel ==
    LET A == call.versionA
        B == call.versionB
        gained(f) == Stored(f, A) = "none" /\ (Unknown(f, B) \/ Supported(f, B))
        lost(f) == (Unknown(f, A) \/ Supported(f, A)) /\ Stored(f, B) = "none"
        changed(f) ==
            \/ Unknown(f, A) /\ Supported(f, B)
            \/ Supported(f, A) /\ Unknown(f, B)
            \/ Supported(f, A) /\ Supported(f, B) /\ Stored(f, A) # Stored(f, B)
    IN  call.fn = "computeComparison" =>
           /\ call.result.gained = Cardinality(FeatureIndices(gained))
           /\ call.result.lost = Cardinality(FeatureIndices(lost))
           /\ call.result.changed = Cardinality(FeatureIndices(changed))

\* a call where one feature has no entry at A and none at B (lost), one has
\* no entry at either version (not counted) and one goes partial -> full
C23_Witness ==
    /\ call.fn = "computeComparison"
    /\ call.result = [gained |-> 0, lost |-> 1, changed |-> 1]
    /\ \E x, y \in Range(data.features) :
          /\ Stored(x, call.versionA) = "absent"
          /\ Stored(x, call.versionB) = "none"
          /\ Stored(y, call.versionA) = "absent"
          /\ Stored(y, call.versionB) = "absent"



\* ---- C24: a comparison depends only on the two version snapshots of the
\* platform

\* the orders in which n features can be listed
Orders(n) == { o \in [1..n -> 1..n] : \A i, j \in 1..n : o[i] = o[j] => i = j }

\* the keys of the entries of the platform of the call at versions A and B
SnapshotKeys ==
    { supportKey(call.platformId, data.features[i].id, v) :
        i \in DOMAIN data.features, v \in {call.versionA, call.versionB} }

\* data with every entry outside the two snapshots removed
OnlySnapshots ==
    [data EXCEPT !.support =
        [k \in DOMAIN data.support \cap SnapshotKeys |-> data.support[k]]]

\* data with the level of every entry outside the two snapshots changed
OthersChanged ==
    [data EXCEPT !.support =
        [k \in DOMAIN data.support |->
            IF k \in SnapshotKeys THEN data.support[k]
            ELSE [data.support[k] EXCEPT
                     !.level = IF @ = "none" THEN "full" ELSE "none"]]]

\* Listing data.features in any other order, and removing or changing the
\* entries of other platforms and other versions, leaves the result of
\* computeComparison for the platform and the two versions as it is.
C24_OnlyTheTwoSnapshots ==
    call.fn = "computeComparison" =>
       /\ \A o \in Orders(Len(data.features)) :
             computeComparison(
                 [data EXCEPT !.features = [i \in DOMAIN data.features |-> @[o[i]]]],
                 call.platformId, call.versionA, call.versionB) = call.result
       /\ computeComparison(OnlySnapshots, call.platformId,
                            call.versionA, call.versionB) = call.result
       /\ computeComparison(OthersChanged, call.platformId,
                            call.versionA, call.versionB) = call.result

\* a comparison that counts something, over features of which the first has
\* equal levels, on data that has entries outside the two snapshots
C24_Witness ==
    /\ call.fn = "computeComparison"
    /\ call.result.gained + call.result.lost + call.result.changed > 0
    /\ LevelAt(data.features[1], call.versionA) = LevelAt(data.features[1], call.versionB)
    /\ DOMAIN data.support \ SnapshotKeys # {}
    /\ OthersChanged # data



\* ---- C28: swapping the two versions swaps gained and lost
\* computeComparison for (platform, B, A) has the gained count that the
\* result for (platform, A, B) has as lost, its lost count as gained, and
\* the same changed count.
C28_SwapSymmetry ==
    call.fn = "computeComparison" =>
        computeComparison(data, call.platformId, call.versionB, call.versionA)
           = [gained |-> call.result.lost,
              lost |-> call.result.gained,
              changed |-> call.result.changed]

\* a comparison with different gained and lost counts, a changed count, and
\* a feature counted with a missing entry at version B
C28_Witness ==
    /\ call.fn = "computeComparison"
    /\ call.versionA # call.versionB
    /\ call.result.gained # call.result.lost
    /\ call.result.changed > 0
    /\ \E f \in Range(data.features) :
          /\ Stored(f, call.versionB) = "absent"
          /\ ~Unknown(f, call.versionA)



C27_ThreeSelections ==
    (call.fn = "App" /\ data.versions = <<V2, V3>>) =>
        /\ call.filters.selectedVersions \in {<<V2>>, <<V3>>, <<V2, V3>>}
        /\ call.result.summary.shown <=> call.filters.selectedVersions = <<V2, V3>>
        /\ call.result.summary.shown =>
              /\ call.result.summary.vA = V2
              /\ call.result.summary.vB = V3

\* Compare clicked while only v3 was selected: the summary compares v2 to v3
C27_Witness ==
    /\ call.fn = "App"
    /\ memo.fn = "toggleCompare"
    /\ memo.filters.selectedVersions = <<V3>>
    /\ call.filters.selectedVersions = <<V2, V3>>
    /\ call.result.summary.shown
    /\ call.result.summary.vA = V2



\* ---- C29: Clear all empties every filter but the version selection
\* From any FilterState, clearAll gives the FilterState with the same
\* selectedVersions, no platform, category or support level selected and the
\* empty search text; applyFilters then returns every platform of data and
\* every feature the version gate lets through.
C29_ClearAllKeepsVersions ==
    call.fn = "clearAll" =>
        /\ call.result.selectedVersions = call.filters.selectedVersions
        /\ call.result.selectedPlatforms = <<>>
        /\ call.result.selectedCategories = <<>>
        /\ call.result.selectedSupportLevels = <<>>
        /\ call.result.searchQuery = <<>>
        /\ applyFilters(data, call.result) =
              [platforms |-> data.platforms,
               features |-> KeptInOrder(data.features, FeatureIndices(PassesGate))]

\* Clear all on a FilterState with v3 selected and every filter set, which
\* showed fewer platforms and fewer features than the cleared one shows
C29_Witness ==
    /\ call.fn = "clearAll"
    /\ Occurs(V3, call.filters.selectedVersions)
    /\ call.filters.selectedPlatforms # <<>>
    /\ call.filters.selectedCategories # <<>>
    /\ call.filters.selectedSupportLevels # <<>>
    /\ call.filters.searchQuery # <<>>
    /\ Len(applyFilters(data, call.filters).platforms) < Len(data.platforms)
    /\ Len(applyFilters(data, call.filters).features)
          < Len(applyFilters(data, call.result).features)


====
